---- MODULE Spec2Model ----
(***************************************************************************)
(* Model of ai-sdk-claude-code-oauth.                                      *)
(*                                                                         *)
(*   - the credential manager of src/src/credentials.ts: the module-level  *)
(*     cache (cachedCredentials, lastReadTime), readCredentials,           *)
(*     isTokenExpired, refreshToken and getValidAccessToken, run by        *)
(*     several callers whose token requests may overlap;                   *)
(*   - the stream decoder of src/src/provider.ts (createStreamTransformer),*)
(*     the consumer of its output, the result doGenerate builds from an    *)
(*     answer, and the request bodies doGenerate and doStream build.       *)
(*                                                                         *)
(* Times are epoch milliseconds, as in the source.                         *)
(***************************************************************************)
EXTENDS Integers, Sequences, FiniteSets, TLC

VARIABLES
    now,                \* the wall clock, Date.now()
    disk,               \* the backing store: ~/.claude/.credentials.json
    cachedCredentials,  \* credentials.ts:26
    lastReadTime,       \* credentials.ts:27
    pc,                 \* per caller: "idle", or "fetch" while awaiting the token endpoint
    credentials,        \* per caller: the record refreshToken was called with
    op,                 \* the operation the last step ran
    io,                 \* the I/O that operation performed
    ret,                \* what that operation returned or threw
    readRet,            \* what the readCredentials it ran, if any, returned or threw
    prevRead,           \* the previous successful readCredentials, if no refresh succeeded since
    lastRefresh,        \* the last successful refresh, if the store was not changed from outside since
    upstream,           \* the lines of the response body the upstream sends
    unread,             \* the bytes of the body not read yet
    consumed,           \* the bytes reader.read() has returned so far
    decoder,            \* the closure variables of createStreamTransformer, and the events enqueued
    reader,             \* the lock on the body: "locked" or "released"
    controller,         \* the output stream: "open" or "closed"
    cuts,               \* what the chunk boundaries have cut so far: a "char", a "line"
    requested,          \* how many events the consumer of the output has asked for: its read() calls
    model               \* the ClaudeCodeLanguageModel instance: its modelId and settings

credVars == <<now, disk, cachedCredentials, lastReadTime, pc, credentials,
              op, io, ret, readRet, prevRead, lastRefresh>>

streamVars == <<upstream, unread, consumed, decoder, reader, controller, cuts, requested, model>>

vars == <<credVars, streamVars>>

----------------------------------------------------------------------------
(* Program constants *)

TOKEN_REFRESH_BUFFER_MS == 5 * 60 * 1000

CACHE_TTL_MS == 30000

(* Bounds of the model *)

\* how many clock ticks a behaviour may take
MaxTicks == 3

\* the callers whose calls may overlap
Procs == {"c1", "c2"}

\* one clock tick: a third of the cache window, so that the window's edge is hit exactly
TickUnit == CACHE_TTL_MS \div 3

StartTime == TOKEN_REFRESH_BUFFER_MS + CACHE_TTL_MS

EndTime == StartTime + MaxTicks * TickUnit

----------------------------------------------------------------------------
(* Values *)

\* `null`, and the absence of a value
null == [null |-> TRUE]

\* interface ClaudeCodeCredentials
CredOf(at, rt, exp, scopes, subscription, tier, org) ==
    [claudeAiOauth |->
        [accessToken |-> at, refreshToken |-> rt, expiresAt |-> exp,
         scopes |-> scopes, subscriptionType |-> subscription,
         rateLimitTier |-> tier],
     organizationUuid |-> org]

\* the record of a login of the first account
Cred(at, rt, exp) == CredOf(at, rt, exp, {"user:inference"}, "max", "default", "org-1")

\* JSON.stringify(newCredentials, null, 2): the text of a record
JSONstringify(c) == <<"json", c>>

\* a file content that is no JSON text
Garbage == <<"not json">>

\* JSON.parse(content): the record of a text, or a SyntaxError
JSONparse(text) ==
    IF Len(text) = 2 /\ text[1] = "json" THEN [ok |-> TRUE, value |-> text[2]]
    ELSE [ok |-> FALSE, value |-> null]

\* the backing store: absent, or a file with a text
NoFile == [exists |-> FALSE, text |-> <<>>]

File(text) == [exists |-> TRUE, text |-> text]

\* records a login may have left in the store: already inside the refresh buffer,
\* entering it after one tick, and valid for the whole run
StoredRecords ==
    { Cred("at-old", "rt-old", StartTime + TOKEN_REFRESH_BUFFER_MS),
      CredOf("at-old", "rt-old", StartTime + TOKEN_REFRESH_BUFFER_MS + TickUnit,
             {"user:inference", "user:profile"}, "pro", "tier-2", "org-2"),
      Cred("at-cli", "rt-cli", EndTime + TOKEN_REFRESH_BUFFER_MS + TickUnit) }

\* what the store may hold when the process starts
InitialDisk == {NoFile, File(Garbage)} \cup {File(JSONstringify(c)) : c \in StoredRecords}

\* what another process (the CLI logging in or out) may leave in the store
ExternalDisk ==
    {NoFile, File(Garbage),
     File(JSONstringify(Cred("at-cli", "rt-cli", EndTime + TOKEN_REFRESH_BUFFER_MS + TickUnit)))}

\* the token endpoint's successful answers: { access_token, refresh_token, expires_in };
\* refresh_token "" stands for an absent one, expires_in is in seconds
TokenResponses ==
    { [access_token |-> "at-new1", refresh_token |-> "", expires_in |-> 310],
      [access_token |-> "at-new2", refresh_token |-> "rt-new", expires_in |-> 3600],
      [access_token |-> "at-new2", refresh_token |-> "rt-new", expires_in |-> 0] }

\* the token endpoint's failing answers: status and body
ErrorResponses ==
    {[status |-> 401, body |-> "invalid_grant"], [status |-> 500, body |-> "server error"]}

----------------------------------------------------------------------------
(* credentials.ts *)

\* mutant of CacheHit: the age test inverted
CacheHit_inverted == cachedCredentials # null /\ (now - lastReadTime) > CACHE_TTL_MS

\* mutant of CacheHit: a cached record never grows too old
CacheHit_noTTL == cachedCredentials # null

\* credentials.ts:36: the cache serves the call
CacheHit == cachedCredentials # null /\ (now - lastReadTime) < CACHE_TTL_MS

\* mutant of ReadCredentials: when the store is missing, a cached record that has grown
\* too old is served all the same
ReadCredentials_staleWhenMissing ==
    IF CacheHit \/ (cachedCredentials # null /\ ~disk.exists)
    THEN [ok |-> TRUE, value |-> cachedCredentials, error |-> "",
          io |-> IF CacheHit THEN {} ELSE {"existsSync"},
          cache |-> cachedCredentials, readTime |-> lastReadTime]
    ELSE IF ~disk.exists
    THEN [ok |-> FALSE, value |-> null, error |-> "CredentialsNotFound",
          io |-> {"existsSync"}, cache |-> cachedCredentials, readTime |-> lastReadTime]
    ELSE IF ~JSONparse(disk.text).ok
    THEN [ok |-> FALSE, value |-> null, error |-> "CredentialsCorrupt",
          io |-> {"existsSync", "readFileSync"},
          cache |-> cachedCredentials, readTime |-> lastReadTime]
    ELSE [ok |-> TRUE, value |-> JSONparse(disk.text).value, error |-> "",
          io |-> {"existsSync", "readFileSync"},
          cache |-> JSONparse(disk.text).value, readTime |-> now]

\* mutant of ReadCredentials: a failed read of the store drops the cached record
ReadCredentials_clearsOnFailure ==
    IF CacheHit
    THEN [ok |-> TRUE, value |-> cachedCredentials, error |-> "",
          io |-> {}, cache |-> cachedCredentials, readTime |-> lastReadTime]
    ELSE IF ~disk.exists
    THEN [ok |-> FALSE, value |-> null, error |-> "CredentialsNotFound",
          io |-> {"existsSync"}, cache |-> null, readTime |-> 0]
    ELSE IF ~JSONparse(disk.text).ok
    THEN [ok |-> FALSE, value |-> null, error |-> "CredentialsCorrupt",
          io |-> {"existsSync", "readFileSync"},
          cache |-> null, readTime |-> 0]
    ELSE [ok |-> TRUE, value |-> JSONparse(disk.text).value, error |-> "",
          io |-> {"existsSync", "readFileSync"},
          cache |-> JSONparse(disk.text).value, readTime |-> now]

\* readCredentials(): its result, its I/O, and the cache it leaves
ReadCredentials ==
    IF CacheHit
    THEN [ok |-> TRUE, value |-> cachedCredentials, error |-> "",
          io |-> {}, cache |-> cachedCredentials, readTime |-> lastReadTime]
    ELSE IF ~disk.exists
    THEN [ok |-> FALSE, value |-> null, error |-> "CredentialsNotFound",
          io |-> {"existsSync"}, cache |-> cachedCredentials, readTime |-> lastReadTime]
    ELSE IF ~JSONparse(disk.text).ok
    THEN [ok |-> FALSE, value |-> null, error |-> "CredentialsCorrupt",
          io |-> {"existsSync", "readFileSync"},
          cache |-> cachedCredentials, readTime |-> lastReadTime]
    ELSE [ok |-> TRUE, value |-> JSONparse(disk.text).value, error |-> "",
          io |-> {"existsSync", "readFileSync"},
          cache |-> JSONparse(disk.text).value, readTime |-> now]

\* mutant of isTokenExpired: the buffer is left out
isTokenExpired_noBuffer(c) == now >= c.claudeAiOauth.expiresAt

\* mutant of isTokenExpired: expired only strictly after the buffer starts
isTokenExpired_strict(c) == now > (c.claudeAiOauth.expiresAt - TOKEN_REFRESH_BUFFER_MS)

\* isTokenExpired(credentials)
isTokenExpired(c) == now >= (c.claudeAiOauth.expiresAt - TOKEN_REFRESH_BUFFER_MS)

\* mutant of NewCredentials: the lifetime, in seconds, is added as if it were milliseconds
NewCredentials_seconds(c, data) ==
    [c EXCEPT !.claudeAiOauth =
        [c.claudeAiOauth EXCEPT
            !.accessToken = data.access_token,
            !.refreshToken = IF data.refresh_token # "" THEN data.refresh_token
                             ELSE c.claudeAiOauth.refreshToken,
            !.expiresAt = now + data.expires_in]]

\* mutant of NewCredentials: the record is built anew, without spreading the input
NewCredentials_notSpread(c, data) ==
    Cred(data.access_token,
         IF data.refresh_token # "" THEN data.refresh_token ELSE c.claudeAiOauth.refreshToken,
         now + (data.expires_in * 1000))

\* credentials.ts:95-103: the record refreshToken builds from its input and the answer
NewCredentials(c, data) ==
    [c EXCEPT !.claudeAiOauth =
        [c.claudeAiOauth EXCEPT
            !.accessToken = data.access_token,
            !.refreshToken = IF data.refresh_token # "" THEN data.refresh_token
                             ELSE c.claudeAiOauth.refreshToken,
            !.expiresAt = now + (data.expires_in * 1000)]]

\* mutant of CacheAfterSave: when the save fails, the new access token is written into
\* the cached record in place
CacheAfterSave_inPlace(new, saved) ==
    IF saved THEN new
    ELSE [cachedCredentials EXCEPT
              !.claudeAiOauth.accessToken = new.claudeAiOauth.accessToken]

\* credentials.ts:106-111: the cache after the attempt to save newCredentials
CacheAfterSave(new, saved) == IF saved THEN new ELSE cachedCredentials

\* provider.ts:61 and 122-131 (doGenerate), 204 and 242-251 (doStream): the requests sent
\* to the model API after `await getValidAccessToken()` settled with `token`: one, bearing
\* the token, when it returned, and none when it threw
ApiRequests(token) ==
    IF token # null /\ token.ok
    THEN {[url |-> "https://api.anthropic.com/v1/messages",
           Authorization |-> <<"Bearer", token.value>>]}
    ELSE {}

\* what a successful readCredentials leaves for the next one to be compared with
Remember(r) == IF r.ok THEN [rec |-> r.value, at |-> r.readTime] ELSE prevRead

----------------------------------------------------------------------------
(* provider.ts, createStreamTransformer: texts and bytes                   *)
(*                                                                         *)
(* A text is a sequence of characters and a chunk a sequence of bytes.     *)
(* An ASCII character is one byte, written as the character itself; a     *)
(* lexical unit of a JSON text that no claim looks inside (a key with its  *)
(* punctuation, a number, a quoted name) is written as one such character. *)
(* "E_ACUTE" is a character of two bytes (U+00E9: 0xC3 0xA9).              *)

LF == "LF"

E_ACUTE == "E_ACUTE"

\* U+FFFD, what TextDecoder puts for a malformed sequence
REPLACEMENT == "U+FFFD"

LeadByte == "0xC3"

ContinuationByte == "0xA9"

\* the bytes of a character
BytesOf(c) == IF c = E_ACUTE THEN <<LeadByte, ContinuationByte>> ELSE <<c>>

\* TextEncoder: the bytes of a text
RECURSIVE Utf8Encode(_)
Utf8Encode(text) ==
    IF text = <<>> THEN <<>> ELSE BytesOf(Head(text)) \o Utf8Encode(Tail(text))

\* the character the UTF-8 decoder puts out when it consumes byte i of `all`, "" for none:
\* an ASCII byte is its character; a continuation byte completes the lead byte before it,
\* and is malformed without one; a lead byte is malformed once a byte that does not
\* continue it follows, and is held while nothing follows
DecodedAt(all, i) ==
    IF all[i] = LeadByte
    THEN IF i < Len(all) /\ all[i + 1] # ContinuationByte THEN REPLACEMENT ELSE ""
    ELSE IF all[i] = ContinuationByte
    THEN IF i > 1 /\ all[i - 1] = LeadByte THEN E_ACUTE ELSE REPLACEMENT
    ELSE all[i]

IsChar(c) == c # ""

DecodedText(all) == SelectSeq([i \in 1..Len(all) |-> DecodedAt(all, i)], IsChar)

\* the bytes of an unfinished character at the end of `all`
HeldBytes(all) == IF all # <<>> /\ all[Len(all)] = LeadByte THEN <<LeadByte>> ELSE <<>>

\* mutant of Utf8Decode: decoder.decode(value) without { stream: true }, which flushes
\* an unfinished character at the end of every chunk
Utf8Decode_noStream(pending, bytes) ==
    [text |-> DecodedText(pending \o bytes)
                  \o (IF HeldBytes(pending \o bytes) = <<>> THEN <<>> ELSE <<REPLACEMENT>>),
     pending |-> <<>>]

\* decoder.decode(value, { stream: true }): the text of the bytes, given the bytes of an
\* unfinished character the decoder holds from the chunks before, and the bytes it holds now
Utf8Decode(pending, bytes) ==
    [text |-> DecodedText(pending \o bytes), pending |-> HeldBytes(pending \o bytes)]

\* buffer.split('\n'): the segments between the newlines, one more than there are newlines
RECURSIVE Split(_)
Split(text) ==
    IF \A i \in DOMAIN text : text[i] # LF THEN <<text>>
    ELSE LET i == CHOOSE i \in DOMAIN text :
                      text[i] = LF /\ \A j \in 1..(i - 1) : text[j] # LF IN
         <<SubSeq(text, 1, i - 1)>> \o Split(SubSeq(text, i + 1, Len(text)))

\* 'data: '
DataPrefix == <<"d", "a", "t", "a", ":", " ">>

\* line.startsWith('data: ')
StartsWithData(line) ==
    Len(line) >= Len(DataPrefix) /\ SubSeq(line, 1, Len(DataPrefix)) = DataPrefix

\* line.slice(6)
Slice6(line) == SubSeq(line, Len(DataPrefix) + 1, Len(line))

\* '[DONE]'
DONE == <<"[DONE]">>

----------------------------------------------------------------------------
(* The frames of the upstream (the JSON values of the data lines) *)

\* an optional number: <<>> when the field is absent, <<n>> otherwise
Absent == <<>>

MessageStart(tokens) == [type |-> "message_start", input_tokens |-> tokens]

ContentBlockStart(kind, id, name) ==
    [type |-> "content_block_start", block |-> kind, id |-> id, name |-> name]

TextDelta(text) == [type |-> "content_block_delta", delta |-> "text_delta", text |-> text]

InputJsonDelta(json) ==
    [type |-> "content_block_delta", delta |-> "input_json_delta", partial_json |-> json]

ContentBlockStop == [type |-> "content_block_stop"]

MessageDelta(reason, tokens) ==
    [type |-> "message_delta", stop_reason |-> reason, output_tokens |-> tokens]

\* a message_delta whose delta has no stop_reason
NoStopReason == "(no stop_reason)"

\* frames of a type the decoder does not know, and a JSON value with no type at all
Ping == [type |-> "ping"]

Untyped == [type |-> "undefined"]

\* the two fragments of {"loc":"NYC"}
Fragment1 == <<"{", "loc">>

Fragment2 == <<":", "NYC", "}">>

Frames ==
    { MessageStart(<<10>>), MessageStart(Absent),
      ContentBlockStart("tool_use", "t1", "weather"),
      ContentBlockStart("tool_use", "t2", "search"),
      ContentBlockStart("tool_use", "", "weather"),
      ContentBlockStart("text", "", ""),
      TextDelta(<<"H", "e">>), TextDelta(<<"l", "l", "o">>), TextDelta(<<"H", E_ACUTE>>),
      InputJsonDelta(Fragment1), InputJsonDelta(Fragment2),
      ContentBlockStop,
      MessageDelta("end_turn", <<3>>), MessageDelta("tool_use", Absent),
      MessageDelta("max_tokens", <<3>>), MessageDelta("stop_sequence", <<7>>),
      MessageDelta(NoStopReason, Absent),
      Ping, Untyped }

\* the text of an optional number
NumberText(n) == IF n = Absent THEN <<>> ELSE <<ToString(n[1])>>

\* the JSON text the upstream writes for a frame
JSONtext(f) ==
    CASE f.type = "message_start" ->
            <<"{", "message_start", "usage:">> \o NumberText(f.input_tokens) \o <<"}">>
      [] f.type = "content_block_start" ->
            <<"{", "content_block_start", f.block, "id:" \o f.id, "name:" \o f.name, "}">>
      [] f.type = "content_block_delta" /\ f.delta = "text_delta" ->
            <<"{", "content_block_delta", "text_delta", "text:">> \o f.text \o <<"}">>
      [] f.type = "content_block_delta" /\ f.delta = "input_json_delta" ->
            <<"{", "content_block_delta", "input_json_delta", "partial_json:">>
                \o f.partial_json \o <<"}">>
      [] f.type = "content_block_stop" -> <<"{", "content_block_stop", "}">>
      [] f.type = "message_delta" ->
            <<"{", "message_delta">>
                \o (IF f.stop_reason = NoStopReason THEN <<>> ELSE <<f.stop_reason>>)
                \o <<"usage:">> \o NumberText(f.output_tokens) \o <<"}">>
      [] f.type = "ping" -> <<"{", "ping", "}">>
      [] OTHER -> <<"{", "}">>

\* the JSON texts of the frames
FrameTexts == [f \in Frames |-> JSONtext(f)]

\* JSON.parse(data): the value of a JSON text, or a SyntaxError
ParseFrame(data) ==
    IF \E f \in Frames : FrameTexts[f] = data
    THEN [ok |-> TRUE, value |-> CHOOSE f \in Frames : FrameTexts[f] = data]
    ELSE [ok |-> FALSE, value |-> Untyped]

\* the line of a frame
DataLine(f) == DataPrefix \o JSONtext(f)

FrameLines == [f \in Frames |-> DataLine(f)]

----------------------------------------------------------------------------
(* The decoder: provider.ts:269-361 *)

\* the closure variables of createStreamTransformer, the decoder's held bytes, and the
\* events enqueued on the controller
InitialDecoder ==
    [pending |-> <<>>, buffer |-> <<>>, inputTokens |-> 0, outputTokens |-> 0,
     currentToolCallId |-> "", currentToolCallName |-> "", currentToolCallArgs |-> <<>>,
     out |-> <<>>]

\* mutant of FinishReason: the max_tokens branch is missing
FinishReason_noLength(stop_reason) ==
    IF stop_reason = "end_turn" THEN "stop"
    ELSE IF stop_reason = "tool_use" THEN "tool-calls"
    ELSE "other"

\* let finishReason = 'other'; if ... (provider.ts:332-339)
FinishReason(stop_reason) ==
    IF stop_reason = "end_turn" THEN "stop"
    ELSE IF stop_reason = "tool_use" THEN "tool-calls"
    ELSE IF stop_reason = "max_tokens" THEN "length"
    ELSE "other"

TextDeltaEvent(text) == [type |-> "text-delta", textDelta |-> text]

ToolCallEvent(id, name, args) ==
    [type |-> "tool-call", toolCallType |-> "function", toolCallId |-> id,
     toolName |-> name, args |-> args]

FinishEvent(reason, prompt, completion) ==
    [type |-> "finish", finishReason |-> reason,
     usage |-> [promptTokens |-> prompt, completionTokens |-> completion]]

\* provider.ts:299-300
OnMessageStart(d, event) ==
    [d EXCEPT !.inputTokens = IF event.input_tokens = Absent THEN 0 ELSE event.input_tokens[1]]

\* provider.ts:301-306
OnContentBlockStart(d, event) ==
    IF event.block = "tool_use"
    THEN [d EXCEPT !.currentToolCallId = event.id, !.currentToolCallName = event.name,
                   !.currentToolCallArgs = <<>>]
    ELSE d

\* mutant of OnContentBlockDelta: a text delta is merged into the text-delta event before it
OnContentBlockDelta_merging(d, event) ==
    IF event.delta = "text_delta"
    THEN IF d.out # <<>> /\ d.out[Len(d.out)].type = "text-delta"
         THEN [d EXCEPT !.out[Len(d.out)] =
                   TextDeltaEvent(d.out[Len(d.out)].textDelta \o event.text)]
         ELSE [d EXCEPT !.out = Append(d.out, TextDeltaEvent(event.text))]
    ELSE IF event.delta = "input_json_delta"
    THEN [d EXCEPT !.currentToolCallArgs = d.currentToolCallArgs \o event.partial_json]
    ELSE d

\* provider.ts:307-315
OnContentBlockDelta(d, event) ==
    IF event.delta = "text_delta"
    THEN [d EXCEPT !.out = Append(d.out, TextDeltaEvent(event.text))]
    ELSE IF event.delta = "input_json_delta"
    THEN [d EXCEPT !.currentToolCallArgs = d.currentToolCallArgs \o event.partial_json]
    ELSE d

\* provider.ts:316-328
OnContentBlockStop(d, event) ==
    IF d.currentToolCallId # ""
    THEN [d EXCEPT !.out = Append(d.out, ToolCallEvent(d.currentToolCallId,
                                   d.currentToolCallName, d.currentToolCallArgs)),
                   !.currentToolCallId = "", !.currentToolCallName = "",
                   !.currentToolCallArgs = <<>>]
    ELSE d

\* mutant of OnMessageDelta: a message_delta without a usage count resets the count to 0
OnMessageDelta_resetsTokens(d, event) ==
    LET tokens == IF event.output_tokens = Absent THEN 0
                  ELSE event.output_tokens[1] IN
    [d EXCEPT !.outputTokens = tokens,
              !.out = Append(d.out, FinishEvent(FinishReason(event.stop_reason),
                                                d.inputTokens, tokens))]

\* provider.ts:329-349
OnMessageDelta(d, event) ==
    LET tokens == IF event.output_tokens = Absent THEN d.outputTokens
                  ELSE event.output_tokens[1] IN
    [d EXCEPT !.outputTokens = tokens,
              !.out = Append(d.out, FinishEvent(FinishReason(event.stop_reason),
                                                d.inputTokens, tokens))]

\* provider.ts:299-349: the dispatch on event.type
Dispatch(d, event) ==
    IF event.type = "message_start" THEN OnMessageStart(d, event)
    ELSE IF event.type = "content_block_start" THEN OnContentBlockStart(d, event)
    ELSE IF event.type = "content_block_delta" THEN OnContentBlockDelta(d, event)
    ELSE IF event.type = "content_block_stop" THEN OnContentBlockStop(d, event)
    ELSE IF event.type = "message_delta" THEN OnMessageDelta(d, event)
    ELSE d

\* mutant of ProcessLine: a payload that is no JSON is reported as an error event
ProcessLine_errorEvent(d, line) ==
    IF ~StartsWithData(line) THEN d
    ELSE IF Slice6(line) = DONE THEN d
    ELSE IF ~ParseFrame(Slice6(line)).ok
    THEN [d EXCEPT !.out = Append(d.out, [type |-> "error"])]
    ELSE Dispatch(d, ParseFrame(Slice6(line)).value)

\* provider.ts:291-353: the body of the loop over the complete lines
ProcessLine(d, line) ==
    IF ~StartsWithData(line) THEN d
    ELSE IF Slice6(line) = DONE THEN d
    ELSE IF ~ParseFrame(Slice6(line)).ok THEN d
    ELSE Dispatch(d, ParseFrame(Slice6(line)).value)

\* for (const line of lines)
RECURSIVE ProcessLines(_, _)
ProcessLines(d, ls) ==
    IF ls = <<>> THEN d ELSE ProcessLines(ProcessLine(d, Head(ls)), Tail(ls))

\* provider.ts:287-353: one iteration of the read loop, on the chunk `value`
OnChunk(d, value) ==
    LET dec == Utf8Decode(d.pending, value)
        lines == Split(d.buffer \o dec.text) IN
    ProcessLines([d EXCEPT !.pending = dec.pending, !.buffer = lines[Len(lines)]],
                 SubSeq(lines, 1, Len(lines) - 1))

----------------------------------------------------------------------------
(* provider.ts, doGenerate: the result built from the answer of the model API *)

\* the content blocks of an answer
TextBlock(text) == [type |-> "text", text |-> text]

ToolUseBlock(id, name, input) == [type |-> "tool_use", id |-> id, name |-> name, input |-> input]

\* provider.ts:160-171: text, undefined (<<>>) or <<the concatenated text>>
RECURSIVE TextOf(_, _)
TextOf(content, text) ==
    IF content = <<>> THEN text
    ELSE TextOf(Tail(content),
                IF Head(content).type = "text"
                THEN <<(IF text = Absent THEN <<>> ELSE text[1]) \o Head(content).text>>
                ELSE text)

\* provider.ts:160-171: toolCalls
RECURSIVE ToolCallsOf(_)
ToolCallsOf(content) ==
    IF content = <<>> THEN <<>>
    ELSE (IF Head(content).type = "tool_use"
          THEN <<[toolCallType |-> "function", toolCallId |-> Head(content).id,
                  toolName |-> Head(content).name,
                  args |-> JSONstringify(Head(content).input)]>>
          ELSE <<>>) \o ToolCallsOf(Tail(content))

\* mutant of GenerateFinishReason: finishReason starts as 'stop'
GenerateFinishReason_stopByDefault(stop_reason) ==
    IF stop_reason = "tool_use" THEN "tool-calls"
    ELSE IF stop_reason = "max_tokens" THEN "length"
    ELSE "stop"

\* let finishReason = 'other'; if ... (provider.ts:173-181)
GenerateFinishReason(stop_reason) ==
    IF stop_reason = "end_turn" THEN "stop"
    ELSE IF stop_reason = "tool_use" THEN "tool-calls"
    ELSE IF stop_reason = "max_tokens" THEN "length"
    ELSE "other"

\* provider.ts:156-195: what doGenerate returns for the answer `data`
DoGenerateResult(data) ==
    [ok |-> TRUE, error |-> "",
     text |-> TextOf(data.content, Absent),
     toolCalls |-> IF ToolCallsOf(data.content) = <<>> THEN Absent
                   ELSE <<ToolCallsOf(data.content)>>,
     finishReason |-> GenerateFinishReason(data.stop_reason),
     usage |-> [promptTokens |-> data.usage.input_tokens,
                completionTokens |-> data.usage.output_tokens],
     data |-> data]

\* the stop reasons an answer or a message_delta may carry
StopReasons == {"end_turn", "tool_use", "max_tokens", "stop_sequence", NoStopReason}

\* the successful answers of the model API to a single-shot request
ApiResponses ==
    { [content |-> IF r = "tool_use"
                   THEN <<TextBlock(<<"H", "e">>), ToolUseBlock("t1", "weather", Fragment1 \o Fragment2)>>
                   ELSE <<TextBlock(<<"H", "e">>), TextBlock(<<"l", "l", "o">>)>>,
       stop_reason |-> r,
       usage |-> [input_tokens |-> 10, output_tokens |-> 3]] : r \in StopReasons }

\* its failing answers: status and body
ApiErrors == {[status |-> 429, body |-> "rate_limit_error"]}

----------------------------------------------------------------------------
(* provider.ts, doGenerate and doStream: the request body built from the model, its
   settings and the options of the call. An optional value is <<>> when it is undefined
   and <<v>> otherwise; a sampling parameter is written as its text. *)

\* the first value that is not undefined: a ?? b
Coalesce(a, b) == IF a # Absent THEN a ELSE b

\* the declaration of a tool in the request: { name, description, input_schema }
ToolDeclaration(tool) ==
    [name |-> tool.name, description |-> tool.description, input_schema |-> tool.parameters]

\* tools.map(tool => ...)
ToolDeclarations(tools) == [i \in DOMAIN tools |-> ToolDeclaration(tools[i])]

\* provider.ts:99-120: body.tools and body.tool_choice of doGenerate
GenerateTools(mode) ==
    IF mode.type = "object-tool"
    THEN [tools |-> <<ToolDeclarations(<<mode.tool>>)>>,
          tool_choice |-> <<[type |-> "tool", name |-> mode.tool.name]>>]
    ELSE IF mode.type = "regular" /\ mode.tools # Absent /\ Len(mode.tools[1]) > 0
    THEN [tools |-> <<ToolDeclarations(mode.tools[1])>>,
          tool_choice |->
              IF mode.toolChoice = Absent THEN Absent
              ELSE IF mode.toolChoice[1].type = "tool"
              THEN <<[type |-> "tool", name |-> mode.toolChoice[1].toolName]>>
              ELSE IF mode.toolChoice[1].type = "required" THEN <<[type |-> "any"]>>
              ELSE IF mode.toolChoice[1].type = "none" THEN <<[type |-> "none"]>>
              ELSE Absent]
    ELSE [tools |-> Absent, tool_choice |-> Absent]

\* provider.ts:227-240: body.tools and body.tool_choice of doStream
StreamTools(mode) ==
    IF mode.type = "object-tool"
    THEN [tools |-> <<ToolDeclarations(<<mode.tool>>)>>,
          tool_choice |-> <<[type |-> "tool", name |-> mode.tool.name]>>]
    ELSE IF mode.type = "regular" /\ mode.tools # Absent /\ Len(mode.tools[1]) > 0
    THEN [tools |-> <<ToolDeclarations(mode.tools[1])>>, tool_choice |-> Absent]
    ELSE [tools |-> Absent, tool_choice |-> Absent]

\* this.convertPrompt(prompt), this.extractSystemMessage(prompt): the same two calls in
\* both methods; `if (systemMessage)` leaves an empty system message out
ConvertPrompt(prompt) == <<"messages of", prompt.messages>>

SystemOf(prompt) == IF prompt.system # Absent /\ prompt.system[1] # "" THEN prompt.system ELSE Absent

\* provider.ts:63-120: the body doGenerate sends
GenerateBody(modelId, settings, options) ==
    [model |-> modelId,
     messages |-> ConvertPrompt(options.prompt),
     max_tokens |-> Coalesce(options.maxTokens, Coalesce(settings.maxTokens, <<4096>>)),
     stream |-> Absent,
     system |-> SystemOf(options.prompt),
     temperature |-> Coalesce(options.temperature, settings.temperature),
     top_p |-> Coalesce(options.topP, settings.topP),
     top_k |-> Coalesce(options.topK, settings.topK),
     tools |-> GenerateTools(options.mode).tools,
     tool_choice |-> GenerateTools(options.mode).tool_choice]

\* provider.ts:206-240: the body doStream sends
StreamBody(modelId, settings, options) ==
    [model |-> modelId,
     messages |-> ConvertPrompt(options.prompt),
     max_tokens |-> Coalesce(options.maxTokens, Coalesce(settings.maxTokens, <<4096>>)),
     stream |-> <<TRUE>>,
     system |-> SystemOf(options.prompt),
     temperature |-> options.temperature,
     top_p |-> options.topP,
     top_k |-> options.topK,
     tools |-> StreamTools(options.mode).tools,
     tool_choice |-> StreamTools(options.mode).tool_choice]

\* the construction-time settings, and the options of the calls
ModelSettings ==
    [maxTokens : {Absent, <<1024>>}, temperature : {Absent, <<"0.7">>},
     topP : {Absent, <<"0.9">>}, topK : {Absent, <<40>>}]

\* settings = {}
NoSettings == [maxTokens |-> Absent, temperature |-> Absent, topP |-> Absent, topK |-> Absent]

\* constructor(modelId, settings = {})
ClaudeCodeLanguageModel(modelId, settings) == [modelId |-> modelId, settings |-> settings]

WeatherTool == [name |-> "weather", description |-> "the weather", parameters |-> "schema-1"]

SearchTool == [name |-> "search", description |-> "a search", parameters |-> "schema-2"]

Modes ==
    {[type |-> "regular", tools |-> Absent, toolChoice |-> Absent],
     [type |-> "regular", tools |-> <<<<>>>>, toolChoice |-> Absent],
     [type |-> "object-json"],
     [type |-> "object-tool", tool |-> SearchTool]}
        \cup { [type |-> "regular", tools |-> <<<<WeatherTool, SearchTool>>>>, toolChoice |-> c] :
                   c \in {Absent, <<[type |-> "auto"]>>, <<[type |-> "required"]>>,
                          <<[type |-> "none"]>>, <<[type |-> "tool", toolName |-> "search"]>>} }

Prompts ==
    {[messages |-> "hello", system |-> Absent], [messages |-> "hello", system |-> <<"Be brief">>]}

CallOptions ==
    { [prompt |-> p, mode |-> m, maxTokens |-> mt, temperature |-> t, topP |-> tp, topK |-> tk] :
          p \in Prompts, m \in Modes, mt \in {Absent, <<256>>}, t \in {Absent, <<"0">>},
          tp \in {Absent, <<"0.5">>}, tk \in {Absent, <<5>>} }

----------------------------------------------------------------------------
(* Actions of the credential manager *)

\* time passes
Tick ==
    /\ now + TickUnit <= EndTime
    /\ now' = now + TickUnit
    /\ op' = "tick" /\ io' = {} /\ ret' = null
    /\ UNCHANGED <<disk, cachedCredentials, lastReadTime, pc, credentials, readRet, prevRead, lastRefresh, streamVars>>

\* another process rewrites or removes the store
StoreChange ==
    \E d \in ExternalDisk :
        /\ d # disk
        /\ disk' = d
        /\ op' = "external" /\ io' = {} /\ ret' = null
        /\ lastRefresh' = null
        /\ UNCHANGED <<now, cachedCredentials, lastReadTime, pc, credentials, readRet, prevRead, streamVars>>

\* a caller calls readCredentials()
ReadCredentialsCall(p) ==
    LET r == ReadCredentials IN
    /\ pc[p] = "idle"
    /\ cachedCredentials' = r.cache
    /\ lastReadTime' = r.readTime
    /\ op' = "readCredentials" /\ io' = r.io
    /\ ret' = [ok |-> r.ok, value |-> r.value, error |-> r.error]
    /\ readRet' = [ok |-> r.ok, value |-> r.value, error |-> r.error]
    /\ prevRead' = Remember(r)
    /\ lastRefresh' = lastRefresh
    /\ UNCHANGED <<now, disk, pc, credentials, streamVars>>

\* a caller calls getValidAccessToken(): it runs to its return, its throw, or its await
GetValidAccessToken(p) ==
    LET r == ReadCredentials IN
    /\ pc[p] = "idle"
    /\ cachedCredentials' = r.cache
    /\ lastReadTime' = r.readTime
    /\ op' = "getValidAccessToken"
    /\ readRet' = [ok |-> r.ok, value |-> r.value, error |-> r.error]
    /\ prevRead' = Remember(r)
    /\ lastRefresh' = lastRefresh
    /\ IF ~r.ok
       THEN /\ io' = r.io
            /\ ret' = [ok |-> FALSE, value |-> null, error |-> r.error]
            /\ UNCHANGED <<pc, credentials>>
       ELSE IF isTokenExpired(r.value)
       THEN /\ io' = r.io \cup {"fetch"}
            /\ ret' = null
            /\ pc' = [pc EXCEPT ![p] = "fetch"]
            /\ credentials' = [credentials EXCEPT ![p] = r.value]
       ELSE /\ io' = r.io
            /\ ret' = [ok |-> TRUE, value |-> r.value.claudeAiOauth.accessToken,
                       error |-> ""]
            /\ UNCHANGED <<pc, credentials>>
    /\ UNCHANGED <<now, disk, streamVars>>

\* the token endpoint answers 2xx: refreshToken builds the record, saves it, returns it
TokenResponseOk(p) ==
    \E data \in TokenResponses, saved \in BOOLEAN :
        LET new == NewCredentials(credentials[p], data) IN
        /\ pc[p] = "fetch"
        /\ disk' = IF saved THEN File(JSONstringify(new)) ELSE disk
        /\ cachedCredentials' = CacheAfterSave(new, saved)
        /\ op' = "refreshed"
        /\ io' = IF saved THEN {"writeFileSync"} ELSE {"writeFileSync failed", "console.warn"}
        /\ ret' = [ok |-> TRUE, value |-> new.claudeAiOauth.accessToken,
                   error |-> "", record |-> new, from |-> credentials[p],
                   data |-> data, saved |-> saved]
        /\ pc' = [pc EXCEPT ![p] = "idle"]
        /\ credentials' = [credentials EXCEPT ![p] = null]
        /\ prevRead' = null
        /\ lastRefresh' = [record |-> new, saved |-> saved]
        /\ UNCHANGED <<now, lastReadTime, readRet, streamVars>>

\* mutant of TokenResponseError: a failed refresh drops the cached record
TokenResponseError_dropsCache(p) ==
    \E e \in ErrorResponses :
        /\ pc[p] = "fetch"
        /\ op' = "refresh failed" /\ io' = {}
        /\ ret' = [ok |-> FALSE, value |-> null, error |-> "RefreshFailed",
                   status |-> e.status, body |-> e.body]
        /\ pc' = [pc EXCEPT ![p] = "idle"]
        /\ credentials' = [credentials EXCEPT ![p] = null]
        /\ cachedCredentials' = null
        /\ UNCHANGED <<now, disk, lastReadTime, readRet, prevRead, lastRefresh, streamVars>>

\* the token endpoint answers non-2xx: refreshToken throws with the status and body
TokenResponseError(p) ==
    \E e \in ErrorResponses :
        /\ pc[p] = "fetch"
        /\ op' = "refresh failed" /\ io' = {}
        /\ ret' = [ok |-> FALSE, value |-> null, error |-> "RefreshFailed",
                   status |-> e.status, body |-> e.body]
        /\ pc' = [pc EXCEPT ![p] = "idle"]
        /\ credentials' = [credentials EXCEPT ![p] = null]
        /\ UNCHANGED <<now, disk, cachedCredentials, lastReadTime, readRet, prevRead, lastRefresh, streamVars>>

\* the records isTokenExpired is called with: for every time the clock shows, one whose
\* buffer starts 1 ms before, one at, and one 1 ms after that time; and one that has lapsed
ExpiryRecords ==
    { Cred("at-old", "rt-old", StartTime + k * TickUnit + TOKEN_REFRESH_BUFFER_MS + d) :
          k \in 0..MaxTicks, d \in {-1, 0, 1} }
        \cup {Cred("at-old", "rt-old", StartTime - 1)}

\* a caller calls isTokenExpired(credentials)
IsTokenExpiredCall(p) ==
    \E c \in ExpiryRecords \cup ({cachedCredentials} \ {null}) :
        /\ pc[p] = "idle"
        /\ op' = "isTokenExpired" /\ io' = {}
        /\ ret' = [ok |-> TRUE, value |-> isTokenExpired(c), error |-> "", arg |-> c]
        /\ UNCHANGED <<now, disk, cachedCredentials, lastReadTime, pc, credentials,
                       readRet, prevRead, lastRefresh, streamVars>>

CredInit ==
    /\ now = StartTime
    /\ disk \in InitialDisk
    /\ cachedCredentials = null
    /\ lastReadTime = 0
    /\ pc = [p \in Procs |-> "idle"]
    /\ credentials = [p \in Procs |-> null]
    /\ op = "init" /\ io = {} /\ ret = null /\ readRet = null /\ prevRead = null /\ lastRefresh = null

----------------------------------------------------------------------------
(* Actions of the stream decoder *)

\* how many lines the upstream sends, line by line
MaxFrames == 4

\* how many lines a body that is cut into arbitrary chunks has
MaxBodyLines == 2

\* lines that are no frame: a payload that is no JSON, the [DONE] payload, a line of
\* another SSE field
NotJsonLine == DataPrefix \o <<"not-json">>

DoneLine == DataPrefix \o DONE

EventLine == <<"event: ping">>

\* the frames the upstream sends line by line
StreamFrames ==
    { MessageStart(<<10>>),
      ContentBlockStart("tool_use", "t1", "weather"),
      ContentBlockStart("tool_use", "", "weather"),
      ContentBlockStart("text", "", ""),
      TextDelta(<<"H", "e">>), TextDelta(<<"l", "l", "o">>),
      InputJsonDelta(Fragment1), InputJsonDelta(Fragment2),
      ContentBlockStop,
      MessageDelta("end_turn", <<3>>),
      Ping }

\* how many lines the upstream sends when the lines are those that bear on the finish event
MaxFinishLines == 3

\* the frames that bear on the finish event: with and without usage counts, with every
\* stop reason and with none
FinishFrames ==
    { MessageStart(<<10>>), MessageStart(Absent),
      TextDelta(<<"H", "e">>),
      MessageDelta("end_turn", <<3>>), MessageDelta("tool_use", Absent),
      MessageDelta("max_tokens", <<3>>), MessageDelta("stop_sequence", <<7>>),
      MessageDelta(NoStopReason, Absent) }

FinishLines == {DataLine(f) : f \in FinishFrames}

\* how many lines the upstream sends when the lines are those of tool calls
MaxToolLines == 4

\* the frames of tool calls: blocks with two different ids and with the empty id, a text
\* block, a fragment of the arguments, and the end of a block
ToolFrames ==
    { ContentBlockStart("tool_use", "t1", "weather"),
      ContentBlockStart("tool_use", "t2", "search"),
      ContentBlockStart("tool_use", "", "weather"),
      ContentBlockStart("text", "", ""),
      InputJsonDelta(Fragment1),
      ContentBlockStop }

ToolLines == {DataLine(f) : f \in ToolFrames}

\* the lines the upstream may send
StreamLines == {DataLine(f) : f \in StreamFrames} \cup {NotJsonLine, DoneLine, EventLine}

\* the lines of the bodies that are cut into arbitrary chunks
BodyLines ==
    { DataLine(TextDelta(<<"H", E_ACUTE>>)),
      DataLine(ContentBlockStart("tool_use", "t1", "weather")),
      DataLine(InputJsonDelta(Fragment1)),
      DataLine(ContentBlockStop),
      DataLine(MessageDelta("end_turn", <<3>>)),
      NotJsonLine }

\* the text of the lines, each ended by a newline
RECURSIVE Join(_)
Join(ls) == IF ls = <<>> THEN <<>> ELSE Head(ls) \o <<LF>> \o Join(Tail(ls))

\* the sequences over S of length at most n
SeqsUpTo(S, n) == UNION {[1..k -> S] : k \in 0..n}

\* the chunk ends inside a character, or inside a line
CutsOf(before, value, rest) ==
    (IF value[Len(value)] = LeadByte THEN {"char"} ELSE {})
        \cup (IF value[Len(value)] # LF /\ rest # <<>> THEN {"line"} ELSE {})

\* await reader.read() returns a chunk holding the whole line l and its newline
ReadLine(l) ==
    LET value == Utf8Encode(l \o <<LF>>) IN
    /\ controller = "open"
    /\ upstream' = Append(upstream, l)
    /\ consumed' = consumed \o value
    /\ decoder' = OnChunk(decoder, value)
    /\ UNCHANGED <<unread, reader, controller, cuts, requested, model, credVars>>

\* the upstream sends one more line
UpstreamLine ==
    \E l \in StreamLines : Len(upstream) < MaxFrames /\ ReadLine(l)

\* the upstream sends one more of the lines that bear on the finish event
FinishLine ==
    \E l \in FinishLines : Len(upstream) < MaxFinishLines /\ ReadLine(l)

\* the upstream sends one more of the lines of tool calls
ToolLine ==
    \E l \in ToolLines : Len(upstream) < MaxToolLines /\ ReadLine(l)

\* the model API answers 2xx to the request of a doGenerate call, which returns its result
GenerateResponseOk ==
    \E data \in ApiResponses :
        /\ op' = "doGenerate" /\ io' = {}
        /\ ret' = DoGenerateResult(data)
        /\ UNCHANGED <<now, disk, cachedCredentials, lastReadTime, pc, credentials,
                       readRet, prevRead, lastRefresh, streamVars>>

\* the model API answers non-2xx: doGenerate throws with the status and body
GenerateResponseError ==
    \E e \in ApiErrors :
        /\ op' = "doGenerate" /\ io' = {}
        /\ ret' = [ok |-> FALSE, error |-> "ApiError", status |-> e.status, body |-> e.body]
        /\ UNCHANGED <<now, disk, cachedCredentials, lastReadTime, pc, credentials,
                       readRet, prevRead, lastRefresh, streamVars>>

\* doGenerate builds the body of its request and sends it
DoGenerateRequest ==
    \E options \in CallOptions :
        /\ op' = "doGenerate request" /\ io' = {"fetch"}
        /\ ret' = [ok |-> TRUE, options |-> options,
                   body |-> GenerateBody(model.modelId, model.settings, options)]
        /\ UNCHANGED <<now, disk, cachedCredentials, lastReadTime, pc, credentials,
                       readRet, prevRead, lastRefresh, streamVars>>

\* doStream builds the body of its request and sends it
DoStreamRequest ==
    \E options \in CallOptions :
        /\ op' = "doStream request" /\ io' = {"fetch"}
        /\ ret' = [ok |-> TRUE, options |-> options,
                   body |-> StreamBody(model.modelId, model.settings, options)]
        /\ UNCHANGED <<now, disk, cachedCredentials, lastReadTime, pc, credentials,
                       readRet, prevRead, lastRefresh, streamVars>>

\* await reader.read() returns the next bytes of the body, cut anywhere
ReadChunk ==
    \E k \in 1..Len(unread) :
        LET value == SubSeq(unread, 1, k)
            rest == SubSeq(unread, k + 1, Len(unread)) IN
        /\ controller = "open"
        /\ unread' = rest
        /\ consumed' = consumed \o value
        /\ decoder' = OnChunk(decoder, value)
        /\ cuts' = cuts \cup CutsOf(consumed, value, rest)
        /\ UNCHANGED <<upstream, reader, controller, requested, model, credVars>>

\* mutant of StreamEnd: a stream that ends without a finish event is given one
StreamEnd_synthesizesFinish ==
    /\ controller = "open"
    /\ unread = <<>>
    /\ reader' = "released"
    /\ controller' = "closed"
    /\ decoder' =
           IF \E i \in DOMAIN decoder.out : decoder.out[i].type = "finish" THEN decoder
           ELSE [decoder EXCEPT !.out = Append(decoder.out,
                     FinishEvent("other", decoder.inputTokens, decoder.outputTokens))]
    /\ UNCHANGED <<upstream, unread, consumed, cuts, requested, model, credVars>>

\* await reader.read() returns done: the loop breaks and the finally block runs
StreamEnd ==
    /\ controller = "open"
    /\ unread = <<>>
    /\ reader' = "released"
    /\ controller' = "closed"
    /\ UNCHANGED <<upstream, unread, consumed, decoder, cuts, requested, model, credVars>>

\* mutant of ReadRejected: without the finally block, a rejected read leaves the reader locked
ReadRejected_noFinally ==
    /\ controller = "open"
    /\ controller' = "closed"
    /\ UNCHANGED <<upstream, unread, consumed, decoder, reader, cuts, requested, model, credVars>>

\* await reader.read() rejects, as it does once the request is cancelled through the abort
\* signal: the exception leaves the loop, whatever is still unread, and the finally block runs
ReadRejected ==
    /\ controller = "open"
    /\ reader' = "released"
    /\ controller' = "closed"
    /\ UNCHANGED <<upstream, unread, consumed, decoder, cuts, requested, model, credVars>>

\* how many events the consumer asks for
MaxReads == 2

\* the consumer of the stream doStream returned calls read() on it: it asks for one more
\* event; the ReadableStream has no pull() and start() never looks at the demand, so
\* nothing else changes
ConsumerRead ==
    /\ requested < MaxReads
    /\ requested' = requested + 1
    /\ UNCHANGED <<upstream, unread, consumed, decoder, reader, controller, cuts, model, credVars>>

\* start(controller): the reader is taken; nothing is read yet
DecoderInit ==
    /\ upstream = <<>> /\ unread = <<>> /\ consumed = <<>>
    /\ decoder = InitialDecoder
    /\ reader = "locked" /\ controller = "open"
    /\ cuts = {}
    /\ requested = 0

\* the same, in a model constructed without settings
StreamInit == DecoderInit /\ model = ClaudeCodeLanguageModel("claude-sonnet-4-20250514", NoSettings)

\* the same, with a whole body waiting to be read; its last line may lack the newline
ChunkInit ==
    /\ upstream \in SeqsUpTo(BodyLines, MaxBodyLines)
    /\ unread \in {Utf8Encode(Join(upstream)),
                   Utf8Encode(SubSeq(Join(upstream), 1, Len(Join(upstream)) - 1))}
    /\ consumed = <<>>
    /\ decoder = InitialDecoder
    /\ reader = "locked" /\ controller = "open"
    /\ cuts = {}
    /\ requested = 0
    /\ model = ClaudeCodeLanguageModel("claude-sonnet-4-20250514", NoSettings)

\* the credential manager at rest
CredIdle == CredInit /\ disk = NoFile

----------------------------------------------------------------------------
(* Specifications *)

\* the credential manager
Init == CredInit /\ StreamInit

Next ==
    \/ Tick
    \/ StoreChange
    \/ \E p \in Procs : ReadCredentialsCall(p)
    \/ \E p \in Procs : GetValidAccessToken(p)
    \/ \E p \in Procs : TokenResponseOk(p)
    \/ \E p \in Procs : TokenResponseError(p)

Spec == Init /\ [][Next]_vars

\* the expiry test, called at any time with any record, between reads of the store
ExpiryNext ==
    \/ Tick
    \/ StoreChange
    \/ \E p \in Procs : ReadCredentialsCall(p)
    \/ \E p \in Procs : IsTokenExpiredCall(p)

SpecExpiry == Init /\ [][ExpiryNext]_vars

\* the decoder, fed line by line
StreamSpecInit == CredIdle /\ StreamInit

StreamNext == UpstreamLine \/ StreamEnd \/ ReadRejected

SpecStream == StreamSpecInit /\ [][StreamNext]_vars

\* the two translations of an answer: the decoder fed the lines that bear on the finish
\* event, and doGenerate given the answers to single-shot requests
FinishNext == FinishLine \/ StreamEnd \/ GenerateResponseOk \/ GenerateResponseError

SpecFinish == StreamSpecInit /\ [][FinishNext]_vars

\* the decoder, fed the lines of tool calls
ToolNext == ToolLine \/ StreamEnd

SpecTools == StreamSpecInit /\ [][ToolNext]_vars

\* the requests of the two methods, for every model, settings and options
RequestInit ==
    /\ CredIdle /\ DecoderInit
    /\ model \in {ClaudeCodeLanguageModel("claude-sonnet-4-20250514", settings) :
                      settings \in ModelSettings}

RequestNext == DoGenerateRequest \/ DoStreamRequest

SpecRequest == RequestInit /\ [][RequestNext]_vars

\* the decoder, fed a body cut into arbitrary chunks
ChunkSpecInit == CredIdle /\ ChunkInit

ChunkNext == ReadChunk \/ StreamEnd \/ ReadRejected

SpecChunks == ChunkSpecInit /\ [][ChunkNext]_vars

\* the same, with a consumer that asks for events when it likes, or never
ConsumerNext == ReadChunk \/ StreamEnd \/ ConsumerRead

SpecConsumer == ChunkSpecInit /\ [][ConsumerNext]_vars

\* the pending read settles with some bytes of the body: what a ReadChunk step does to
\* the body, whatever the decoder makes of the bytes
BytesRead ==
    /\ controller = "open" /\ controller' = "open"
    /\ Len(unread') < Len(unread)
    /\ consumed' \o unread' = consumed \o unread

\* a turn of the read loop: the pending read settles (a rejection, done, or some bytes)
\* and the code after the await runs; under SpecChunks these are the steps of ChunkNext
LoopStep == ReadRejected \/ StreamEnd \/ BytesRead

\* the same, while the event loop keeps running start(): a read of a finite body always
\* settles, so the loop does not stay for ever before an await it could pass
FairChunks == SpecChunks /\ WF_vars(LoopStep)

----------------------------------------------------------------------------
(* Claims about the credential manager, checked under Spec *)

DiskIO == {"existsSync", "readFileSync"}

\* the step ran readCredentials (directly or inside getValidAccessToken) and it succeeded
ReadSucceeded == op' \in {"readCredentials", "getValidAccessToken"} /\ readRet'.ok

\* C1: two successful readCredentials calls made less than 30 s after the same disk
\* read, with no refresh between them, return the same record, and the second one
\* performs no disk I/O at all (so the two perform at most one read of the store).
C1_CacheWindow ==
    [][ (ReadSucceeded /\ prevRead # null /\ (now - prevRead.at) < CACHE_TTL_MS)
          => (readRet'.value = prevRead.rec /\ io' \cap DiskIO = {}) ]_vars

\* C1 witness: a call is served from the cache while the store holds something else
C1_Witness ==
    /\ op = "readCredentials" /\ ret.ok /\ io = {}
    /\ disk # File(JSONstringify(ret.value))

\* C2: after a refresh whose token request succeeded but whose save failed, a
\* readCredentials call made at once, inside the cache window, returns the refreshed record.
C2_CacheUpdatedWhenSaveFails ==
    (op = "refreshed" /\ ~ret.saved /\ (now - lastReadTime) < CACHE_TTL_MS)
        => (ReadCredentials.ok /\ ReadCredentials.value = ret.record)

\* C3: getValidAccessToken issues a token request iff the record it read is expired
\* (now >= expiresAt - 5 min); without a refresh it returns the accessToken of the record
\* it read, and after a successful refresh the accessToken of the refreshed record.
C3_RefreshIffExpired ==
    /\ op = "getValidAccessToken" =>
         /\ ("fetch" \in io) <=>
               (readRet.ok /\ now >= readRet.value.claudeAiOauth.expiresAt - 5 * 60 * 1000)
         /\ (readRet.ok /\ "fetch" \notin io) =>
               (ret.ok /\ ret.value = readRet.value.claudeAiOauth.accessToken)
         /\ ("fetch" \in io) => (\E p \in Procs : pc[p] = "fetch" /\ credentials[p] = readRet.value)
    /\ op = "refreshed" =>
         /\ ret.ok /\ ret.value = ret.data.access_token
         /\ ret.value = ret.record.claudeAiOauth.accessToken

\* C3 witness: a refresh started at the exact edge of the buffer has returned its new token
C3_Witness ==
    /\ op = "refreshed" /\ ret.ok
    /\ ret.from.claudeAiOauth.expiresAt - TOKEN_REFRESH_BUFFER_MS = StartTime

\* C4: a non-success answer of the token endpoint makes refresh fail with an error
\* carrying the status and body, and modifies neither the cache nor the store.
C4_FailedRefreshKeepsState ==
    [][ op' = "refresh failed" =>
          /\ ~ret'.ok /\ ret'.error = "RefreshFailed"
          /\ [status |-> ret'.status, body |-> ret'.body] \in ErrorResponses
          /\ cachedCredentials' = cachedCredentials
          /\ lastReadTime' = lastReadTime
          /\ disk' = disk ]_vars

\* C4 witness: a refresh has failed and the stale, expired record is still the cached one
C4_Witness ==
    /\ op = "refresh failed" /\ ret.error = "RefreshFailed"
    /\ cachedCredentials # null
    /\ now >= cachedCredentials.claudeAiOauth.expiresAt - TOKEN_REFRESH_BUFFER_MS

\* two callers await the token endpoint with the same record, hence the same refresh token
OverlappingRefreshes ==
    \E p, q \in Procs : p # q /\ pc[p] = "fetch" /\ pc[q] = "fetch"
                        /\ credentials[p] = credentials[q]

\* C5: of two overlapping refreshes of the same record that both succeed, the one that
\* completes last leaves its whole record in the cache and in the store.
C5_LastRefreshWins ==
    [][ (op = "refreshed" /\ op' = "refreshed" /\ ret'.from = ret.from)
          => (cachedCredentials' = ret'.record /\ disk' = File(JSONstringify(ret'.record))) ]_vars

\* the same, for a last refresh whose save succeeded
LastSavedRefreshWins ==
    [][ (op = "refreshed" /\ op' = "refreshed" /\ ret'.from = ret.from /\ ret'.saved)
          => (cachedCredentials' = ret'.record /\ disk' = File(JSONstringify(ret'.record))) ]_vars

----------------------------------------------------------------------------
(* Claims about the stream decoder, checked under SpecStream and SpecChunks *)

\* the last step read one more line of the upstream
LineRead == Len(upstream') = Len(upstream) + 1

LastLine(ls) == ls[Len(ls)]

\* the frame a line carries, for the lines that carry one
IsFrameLine(l) == \E f \in Frames : l = FrameLines[f]

FrameOfLine(l) == CHOOSE f \in Frames : l = FrameLines[f]

IsTextDeltaLine(l) ==
    IsFrameLine(l) /\ FrameOfLine(l).type = "content_block_delta"
                   /\ FrameOfLine(l).delta = "text_delta"

IsJsonDeltaLine(l) ==
    IsFrameLine(l) /\ FrameOfLine(l).type = "content_block_delta"
                   /\ FrameOfLine(l).delta = "input_json_delta"

IsToolUseStartLine(l) ==
    IsFrameLine(l) /\ FrameOfLine(l).type = "content_block_start"
                   /\ FrameOfLine(l).block = "tool_use"

IsMessageDeltaLine(l) == IsFrameLine(l) /\ FrameOfLine(l).type = "message_delta"

StopLine == DataLine(ContentBlockStop)

\* C6: the decoder emits at most one finish event, and no text-delta or tool-call event
\* after it, whatever frames the upstream sends.
C6_SingleFinish ==
    LET out == decoder.out
        finishes == {i \in DOMAIN out : out[i].type = "finish"} IN
    /\ Cardinality(finishes) <= 1
    /\ \A i \in finishes : \A j \in DOMAIN out :
           j > i => out[j].type \notin {"text-delta", "tool-call"}

\* the example of the specification: its lines and its events
ExampleLines ==
    << DataLine(MessageStart(<<10>>)), DataLine(TextDelta(<<"H", "e">>)),
       DataLine(TextDelta(<<"l", "l", "o">>)), DataLine(MessageDelta("end_turn", <<3>>)) >>

ExampleEvents ==
    << [type |-> "text-delta", textDelta |-> <<"H", "e">>],
       [type |-> "text-delta", textDelta |-> <<"l", "l", "o">>],
       [type |-> "finish", finishReason |-> "stop",
        usage |-> [promptTokens |-> 10, completionTokens |-> 3]] >>

\* the event a line triggers is appended when the line is read, and nothing else is:
\* a text-delta frame appends one text-delta with its text, a message_delta frame one
\* finish, a content_block_stop frame at most one tool-call, any other line nothing
EmittedInOrder ==
    LET l == LastLine(upstream')
        old == decoder.out
        new == decoder'.out IN
    IF IsTextDeltaLine(l)
    THEN new = Append(old, [type |-> "text-delta", textDelta |-> FrameOfLine(l).text])
    ELSE IF IsMessageDeltaLine(l)
    THEN Len(new) = Len(old) + 1 /\ SubSeq(new, 1, Len(old)) = old
         /\ new[Len(new)].type = "finish"
    ELSE IF l = StopLine
    THEN new = old \/ (Len(new) = Len(old) + 1 /\ SubSeq(new, 1, Len(old)) = old
                       /\ new[Len(new)].type = "tool-call")
    ELSE new = old

\* C7: events are emitted in the order of the frames that trigger them, one text-delta
\* per text-delta frame, with no merging or batching across frames; the example
\* message_start(10), "He", "llo", message_delta(end_turn, 3) yields exactly
\* text-delta("He"), text-delta("llo"), finish(stop, 10, 3).
C7_EmittedInOrder ==
    /\ [](upstream = ExampleLines => decoder.out = ExampleEvents)
    /\ [][LineRead => EmittedInOrder]_vars

\* C7 witness: the example has been read and its three events are out
C7_Witness == upstream = ExampleLines /\ decoder.out = ExampleEvents

\* the frames read so far
RECURSIVE FramesOf(_)
FramesOf(ls) ==
    IF ls = <<>> THEN <<>>
    ELSE (IF IsFrameLine(Head(ls)) THEN <<FrameOfLine(Head(ls))>> ELSE <<>>)
         \o FramesOf(Tail(ls))

\* the frames end with a tool_use block: its start at i, then only partial-json deltas,
\* then the content_block_stop
ToolUseBlockFrom(fs, i) ==
    /\ i \in 1..(Len(fs) - 1)
    /\ fs[i].type = "content_block_start" /\ fs[i].block = "tool_use"
    /\ fs[Len(fs)].type = "content_block_stop"
    /\ \A j \in (i + 1)..(Len(fs) - 1) :
           fs[j].type = "content_block_delta" /\ fs[j].delta = "input_json_delta"

\* the fragments of fs[from..to], concatenated in arrival order
RECURSIVE Fragments(_, _, _)
Fragments(fs, from, to) ==
    IF from > to THEN <<>> ELSE fs[from].partial_json \o Fragments(fs, from + 1, to)

\* the step that reads the block's stop emits exactly its tool-call; the steps that read
\* a tool_use start or a fragment emit nothing
ToolCallAtStop(ids) ==
    LET l == LastLine(upstream')
        fs == FramesOf(upstream') IN
    /\ (IsToolUseStartLine(l) \/ IsJsonDeltaLine(l)) => decoder'.out = decoder.out
    /\ \A i \in DOMAIN fs :
           (l = StopLine /\ ToolUseBlockFrom(fs, i) /\ fs[i].id \in ids)
               => decoder'.out = Append(decoder.out,
                      [type |-> "tool-call", toolCallType |-> "function",
                       toolCallId |-> fs[i].id, toolName |-> fs[i].name,
                       args |-> Fragments(fs, i + 1, Len(fs) - 1)])

\* the ids a tool_use block may carry
ToolCallIds == {f.id : f \in {g \in Frames : g.type = "content_block_start"}}

\* C8: a tool_use content-block-start, any number of partial-json deltas and a
\* content-block-stop emit exactly one tool-call event, at the stop, with the id and
\* name of the start and the fragments concatenated in arrival order; none earlier.
C8_OneToolCallAtStop == [][LineRead => ToolCallAtStop(ToolCallIds)]_vars

\* the same for the blocks whose id is not the empty string
NamedToolCallAtStop == [][LineRead => ToolCallAtStop(ToolCallIds \ {""})]_vars

\* C9: the decoder's events (and its whole state) depend only on the bytes read so far,
\* not on how they were cut into chunks: they are what one chunk holding all of them gives.
C9_ChunkingInvariant == decoder = OnChunk(InitialDecoder, consumed)

\* C9 witness: a character and a line were cut by chunk boundaries, the stream has
\* ended, and the text-delta holds the two-byte character
C9_Witness ==
    /\ cuts = {"char", "line"}
    /\ controller = "closed"
    /\ \E i \in DOMAIN decoder.out :
           decoder.out[i] = [type |-> "text-delta", textDelta |-> <<"H", E_ACUTE>>]

\* the lines the decoder has to ignore: no `data: ` prefix, the [DONE] payload, a
\* payload that is no JSON, a frame of unknown type
IgnoredLines == {EventLine, DoneLine, NotJsonLine, DataLine(Ping)}

NotIgnored(l) == l \notin IgnoredLines

\* C10: lines without the `data: ` prefix, [DONE] payloads, payloads that are no JSON and
\* frames of unknown type emit nothing and leave the decoder's state unchanged: the
\* events and the state are those of the same lines with the ignored ones removed.
C10_IgnoredLinesChangeNothing ==
    decoder = ProcessLines(InitialDecoder, SelectSeq(upstream, NotIgnored))

\* C10 witness: a payload that is no JSON arrived inside an open tool call, whose
\* tool-call event then carried the fragments around it
C10_Witness ==
    /\ upstream = << DataLine(ContentBlockStart("tool_use", "t1", "weather")),
                    DataLine(InputJsonDelta(Fragment1)), NotJsonLine, StopLine >>
    /\ decoder.out = << [type |-> "tool-call", toolCallType |-> "function",
                         toolCallId |-> "t1", toolName |-> "weather",
                         args |-> Fragment1] >>

----------------------------------------------------------------------------
(* Further claims about the credential manager, checked under Spec *)

\* C12: refresh returns a record whose expiresAt is strictly later than the expiresAt of
\* its input record, for every input record and every server-reported lifetime.
C12_StrictlyLater ==
    op = "refreshed" =>
        ret.record.claudeAiOauth.expiresAt > ret.from.claudeAiOauth.expiresAt

\* C12 as amended: the new expiresAt is the time of the answer plus the reported lifetime
\* in milliseconds; for an input record that was expired (inside the 5-minute buffer or
\* lapsed) when the refresh was called, it is strictly later than the input's whenever the
\* lifetime is longer than the buffer.
C12_LaterWhenLifetimeExceedsBuffer ==
    op = "refreshed" =>
        /\ ret.record.claudeAiOauth.expiresAt = now + ret.data.expires_in * 1000
        /\ ret.data.expires_in * 1000 > 5 * 60 * 1000
              => ret.record.claudeAiOauth.expiresAt > ret.from.claudeAiOauth.expiresAt

\* C12 witness: a record at the exact edge of the buffer, not yet lapsed, was refreshed
\* at once with a lifetime just above the buffer
C12_Witness ==
    /\ op = "refreshed" /\ ret.data.expires_in = 310
    /\ ret.from.claudeAiOauth.expiresAt = now + TOKEN_REFRESH_BUFFER_MS
    /\ ret.record.claudeAiOauth.expiresAt = ret.from.claudeAiOauth.expiresAt + 10000

\* C13: a successful refresh returns a record whose scopes, subscriptionType,
\* rateLimitTier and organization id equal those of its input record; only accessToken,
\* refreshToken and expiresAt may differ.
C13_RefreshKeepsOtherFields ==
    op = "refreshed" =>
        /\ ret.record.claudeAiOauth.scopes = ret.from.claudeAiOauth.scopes
        /\ ret.record.claudeAiOauth.subscriptionType = ret.from.claudeAiOauth.subscriptionType
        /\ ret.record.claudeAiOauth.rateLimitTier = ret.from.claudeAiOauth.rateLimitTier
        /\ ret.record.organizationUuid = ret.from.organizationUuid
        /\ DOMAIN ret.record = DOMAIN ret.from
        /\ DOMAIN ret.record.claudeAiOauth = DOMAIN ret.from.claudeAiOauth
        /\ \A k \in DOMAIN ret.from.claudeAiOauth :
               k \notin {"accessToken", "refreshToken", "expiresAt"}
                   => ret.record.claudeAiOauth[k] = ret.from.claudeAiOauth[k]

\* C13 witness: the record of the second account was refreshed: all three token fields
\* changed and the account's own fields are still there
C13_Witness ==
    /\ op = "refreshed"
    /\ ret.from.organizationUuid = "org-2" /\ ret.record.organizationUuid = "org-2"
    /\ ret.record.claudeAiOauth.subscriptionType = "pro"
    /\ ret.record.claudeAiOauth.accessToken # ret.from.claudeAiOauth.accessToken
    /\ ret.record.claudeAiOauth.refreshToken # ret.from.claudeAiOauth.refreshToken
    /\ ret.record.claudeAiOauth.expiresAt # ret.from.claudeAiOauth.expiresAt

\* the step ran readCredentials, directly or inside getValidAccessToken
ReadRan == op' \in {"readCredentials", "getValidAccessToken"}

\* nothing is cached, or 30 s or more have passed since the last read of the store
CacheMiss == cachedCredentials = null \/ (now - lastReadTime) >= 30000

\* C14: a readCredentials call made when nothing is cached or when 30 s or more have
\* passed since the last disk read consults the store again; it returns the record the
\* store holds now and caches it with the time of the call as its read time (and fails
\* when the store holds no readable record).
C14_MissRereads ==
    [][ (ReadRan /\ CacheMiss) =>
          /\ "existsSync" \in io'
          /\ readRet'.ok <=> (disk.exists /\ disk.text # Garbage)
          /\ readRet'.ok =>
                /\ "readFileSync" \in io'
                /\ disk.text = JSONstringify(readRet'.value)
                /\ cachedCredentials' = readRet'.value
                /\ lastReadTime' = now ]_vars

\* C14 witness: a record was read and refreshed, the refreshed record saved, and 30 s
\* after that first read a call read the store again and returned the saved record
C14_Witness ==
    /\ op = "readCredentials" /\ ret.ok /\ io = DiskIO
    /\ now = StartTime + 30000 /\ lastReadTime = now
    /\ ret.value.claudeAiOauth.accessToken = "at-new1"
    /\ cachedCredentials = ret.value

\* C15: when the store does not exist and no valid cached record is available (nothing
\* cached, or the cached record is 30 s old or more), getValidAccessToken fails with the
\* credentials-not-found error and no network request is issued: no token request, and
\* no request to the model API by the doGenerate or doStream awaiting it.
C15_NotFoundWithoutNetwork ==
    [][ (op' = "getValidAccessToken" /\ ~disk.exists /\ CacheMiss) =>
          /\ "fetch" \notin io'
          /\ pc' = pc
          /\ ~ret'.ok /\ ret'.error = "CredentialsNotFound"
          /\ ApiRequests(ret') = {} ]_vars

\* C15 witness: the store was removed after a record had been cached; the call made once
\* that record had grown too old failed with not-found, and nobody awaits the endpoint
C15_Witness ==
    /\ op = "getValidAccessToken" /\ ret # null /\ ret.error = "CredentialsNotFound"
    /\ io = {"existsSync"}
    /\ cachedCredentials # null /\ ~disk.exists
    /\ \A p \in Procs : pc[p] = "idle"

\* a record with every field of ClaudeCodeCredentials
IsWholeRecord(c) ==
    /\ DOMAIN c = {"claudeAiOauth", "organizationUuid"}
    /\ DOMAIN c.claudeAiOauth = {"accessToken", "refreshToken", "expiresAt", "scopes",
                                 "subscriptionType", "rateLimitTier"}

\* C17: the process holds at most one cached record, always a whole record; the cached
\* record changes only by being replaced, by exactly what a disk read returned or by
\* exactly the record a refresh constructed; a refresh leaves its input record, and the
\* records other pending refreshes hold, as they were.
C17_CacheReplacedWhole ==
    /\ [](cachedCredentials = null \/ IsWholeRecord(cachedCredentials))
    /\ [][ cachedCredentials' # cachedCredentials =>
              \/ /\ ReadRan /\ readRet'.ok /\ "readFileSync" \in io'
                 /\ cachedCredentials' = readRet'.value
              \/ /\ op' = "refreshed" /\ IsWholeRecord(ret'.record)
                 /\ cachedCredentials' = ret'.record ]_vars
    /\ [][ op' = "refreshed" =>
              /\ \E p \in Procs : pc[p] = "fetch" /\ pc'[p] = "idle"
                                     /\ ret'.from = credentials[p]
              /\ \A q \in Procs : pc'[q] = "fetch" => credentials'[q] = credentials[q] ]_vars

\* C17 witness: a refresh replaced the cached record by the record it built, while its
\* input record, still held by another pending refresh, is as it was
C17_Witness ==
    /\ op = "refreshed" /\ ret.saved /\ cachedCredentials = ret.record
    /\ \E q \in Procs : /\ pc[q] = "fetch" /\ credentials[q] = ret.from
                         /\ credentials[q] # cachedCredentials

\* a getValidAccessToken call is made after a successful refresh, with no change of the
\* store from outside since, and before the refreshed token enters its 5-minute buffer
CallAfterRefresh ==
    /\ op' = "getValidAccessToken"
    /\ lastRefresh # null
    /\ now < lastRefresh.record.claudeAiOauth.expiresAt - 5 * 60 * 1000

\* the call issues no token request and returns the refreshed access token
RefreshedTokenReturned ==
    /\ "fetch" \notin io'
    /\ ret'.ok
    /\ ret'.value = lastRefresh.record.claudeAiOauth.accessToken

\* C20: after a successful refresh, every later getValidAccessToken call made before the
\* new token enters its buffer, with no external change of the store, returns the
\* refreshed access token without another token request, whether or not the refreshed
\* record could be saved.
C20_RefreshedTokenReused == [][CallAfterRefresh => RefreshedTokenReturned]_vars

\* the same after a refresh whose record was saved
SavedRefreshReused == [][(CallAfterRefresh /\ lastRefresh.saved) => RefreshedTokenReturned]_vars

\* a call after a saved refresh was served the refreshed token from the store, read again
SavedRefreshReread ==
    /\ op = "getValidAccessToken" /\ ret # null /\ ret.ok
    /\ lastRefresh # null /\ lastRefresh.saved
    /\ io = DiskIO
    /\ ret.value = lastRefresh.record.claudeAiOauth.accessToken

----------------------------------------------------------------------------
(* Claim about isTokenExpired, checked under SpecExpiry *)

\* C16: isTokenExpired(record) is true iff now >= expiresAt - 5 minutes, in particular
\* at exact equality now + 5 minutes = expiresAt, and it reads or writes no state other
\* than the clock.
C16_ExpiredIffInsideBuffer ==
    /\ [](op = "isTokenExpired" =>
             (ret.value <=> now >= ret.arg.claudeAiOauth.expiresAt - 5 * 60 * 1000))
    /\ [](op = "isTokenExpired" /\ now + 5 * 60 * 1000 = ret.arg.claudeAiOauth.expiresAt
             => ret.value)
    /\ [][ op' = "isTokenExpired" =>
              /\ io' = {}
              /\ UNCHANGED <<now, disk, cachedCredentials, lastReadTime, pc, credentials>> ]_vars

\* C16 witness: at exact equality the record is expired, one tick after the start, while
\* the cache holds another record
C16_Witness ==
    /\ op = "isTokenExpired" /\ ret.value
    /\ now = StartTime + TickUnit
    /\ now + TOKEN_REFRESH_BUFFER_MS = ret.arg.claudeAiOauth.expiresAt
    /\ cachedCredentials # null /\ cachedCredentials # ret.arg

\* the record whose buffer starts 1 ms after the call is not expired
NotYetExpired ==
    /\ op = "isTokenExpired" /\ ~ret.value
    /\ now + TOKEN_REFRESH_BUFFER_MS + 1 = ret.arg.claudeAiOauth.expiresAt

----------------------------------------------------------------------------
(* Further claims about the stream decoder *)

IsTextDeltaEvent(e) == e.type = "text-delta"

\* the text-delta events of the text-delta lines among ls, in their order
TextDeltasOf(ls) ==
    LET tl == SelectSeq(ls, IsTextDeltaLine) IN
    [i \in 1..Len(tl) |-> [type |-> "text-delta", textDelta |-> FrameOfLine(tl[i]).text]]

NoMessageDelta == \A i \in DOMAIN upstream : ~IsMessageDeltaLine(upstream[i])

\* C18: if the upstream ends without ever sending a message_delta frame, no finish event
\* is emitted: the closed output holds only text-delta and tool-call events, the
\* text-deltas being those of the text-delta frames received, and closing adds no event.
C18_NoSynthesizedFinish ==
    (controller = "closed" /\ NoMessageDelta) =>
        /\ \A i \in DOMAIN decoder.out : decoder.out[i].type \in {"text-delta", "tool-call"}
        /\ SelectSeq(decoder.out, IsTextDeltaEvent) = TextDeltasOf(upstream)
        /\ decoder = ProcessLines(InitialDecoder, upstream)

\* C18 witness: a stream with a tool call and a text delta but no message_delta has
\* ended, its two events are out and nothing else is
C18_Witness ==
    /\ controller = "closed" /\ NoMessageDelta
    /\ Len(decoder.out) = 2
    /\ decoder.out[1].type = "tool-call" /\ decoder.out[2].type = "text-delta"

----------------------------------------------------------------------------
(* Claim about the finish reason, checked under SpecFinish *)

IsFinishEvent(e) == e.type = "finish"

\* the mapping of the specification
FinishReasonTable(stop_reason) ==
    CASE stop_reason = "end_turn" -> "stop"
      [] stop_reason = "tool_use" -> "tool-calls"
      [] stop_reason = "max_tokens" -> "length"
      [] OTHER -> "other"

\* C19: the stop reason is mapped to the finish reason by end_turn -> stop,
\* tool_use -> tool-calls, max_tokens -> length, any other or missing value -> other,
\* by the streaming decoder (one finish per message_delta frame, in order) and by the
\* single-shot generate path alike.
C19_FinishReasonMapping ==
    LET md == SelectSeq(upstream, IsMessageDeltaLine)
        fin == SelectSeq(decoder.out, IsFinishEvent) IN
    /\ Len(fin) = Len(md)
    /\ \A i \in DOMAIN fin :
           fin[i].finishReason = FinishReasonTable(FrameOfLine(md[i]).stop_reason)
    /\ (op = "doGenerate" /\ ret.ok) =>
           ret.finishReason = FinishReasonTable(ret.data.stop_reason)

\* C19 witness: the decoder has mapped max_tokens to length and a missing stop reason to
\* other, and a doGenerate call has mapped stop_sequence to other
C19_Witness ==
    /\ upstream = << DataLine(MessageStart(<<10>>)), DataLine(MessageDelta("max_tokens", <<3>>)),
                     DataLine(MessageDelta(NoStopReason, Absent)) >>
    /\ Len(decoder.out) = 2
    /\ decoder.out[1].finishReason = "length" /\ decoder.out[2].finishReason = "other"
    /\ op = "doGenerate" /\ ret.ok
    /\ ret.data.stop_reason = "stop_sequence" /\ ret.finishReason = "other"

----------------------------------------------------------------------------
(* Claim about tool calls, checked under SpecTools *)

IsToolUseStart(f) == f.type = "content_block_start" /\ f.block = "tool_use"

\* the tool calls the frames fs open and close, in the order they are closed: a tool_use
\* content_block_start opens one, and a content_block_stop that follows closes the one
\* opened last among those still open (`open`)
RECURSIVE ClosedToolCalls(_, _)
ClosedToolCalls(fs, open) ==
    IF fs = <<>> THEN <<>>
    ELSE IF IsToolUseStart(Head(fs))
    THEN ClosedToolCalls(Tail(fs), Append(open, Head(fs)))
    ELSE IF Head(fs).type = "content_block_stop" /\ open # <<>>
    THEN <<open[Len(open)]>> \o ClosedToolCalls(Tail(fs), SubSeq(open, 1, Len(open) - 1))
    ELSE ClosedToolCalls(Tail(fs), open)

\* how many elements of the sequence s satisfy Test
HowMany(s, Test(_)) == Cardinality({i \in DOMAIN s : Test(s[i])})

\* for every tool_use start, as many tool-call events bear its id and name as there are
\* closed tool calls it opened
EveryClosedCallEmitted(closed, out) ==
    \A f \in ToolFrames :
        IsToolUseStart(f) =>
            LET IsCallOf(e) == e.type = "tool-call" /\ e.toolCallId = f.id /\ e.toolName = f.name
                IsF(g) == g = f IN
            HowMany(out, IsCallOf) >= HowMany(closed, IsF)

\* C21: every tool call opened by a tool_use content-block-start that is later followed
\* by a content-block-stop is emitted as a tool-call event; none is silently lost, for
\* any frame sequence (a second tool_use start before the first is closed, or a start
\* whose id is the empty string, included).
C21_NoToolCallLost ==
    EveryClosedCallEmitted(ClosedToolCalls(FramesOf(upstream), <<>>), decoder.out)

\* tool_use blocks that come one after the other, each closed before the next is opened
Sequential(fs) ==
    \A i, j \in DOMAIN fs :
        (i < j /\ IsToolUseStart(fs[i]) /\ IsToolUseStart(fs[j]))
            => \E k \in (i + 1)..(j - 1) : fs[k].type = "content_block_stop"

NamedIds(fs) == \A i \in DOMAIN fs : IsToolUseStart(fs[i]) => fs[i].id # ""

\* the same for blocks with a non-empty id that come one after the other
SequentialNamedCallsEmitted ==
    (Sequential(FramesOf(upstream)) /\ NamedIds(FramesOf(upstream))) => C21_NoToolCallLost

\* two such blocks were opened and closed, and both tool calls are out
TwoCallsEmitted ==
    /\ upstream = << DataLine(ContentBlockStart("tool_use", "t1", "weather")), StopLine,
                     DataLine(ContentBlockStart("tool_use", "t2", "search")), StopLine >>
    /\ Len(decoder.out) = 2
    /\ decoder.out[1].toolCallId = "t1" /\ decoder.out[2].toolCallId = "t2"

----------------------------------------------------------------------------
(* Claim about the end of the stream, checked under SpecChunks *)

\* the events of a sequence of lines, each processed whole
EventsOf(ls) == ProcessLines(InitialDecoder, ls).out

\* how many newlines the bytes hold
NewlinesIn(bytes) == Cardinality({i \in DOMAIN bytes : bytes[i] = LF})

\* the whole body has been read and the stream has ended
BodyEnded == controller = "closed" /\ unread = <<>>

\* C22: every `data: ` frame contained in the byte stream is decoded, including a last
\* frame that is terminated by the end of the stream rather than by a newline: once the
\* body has been read to its end, the events are those of all its lines.
C22_EveryFrameDecoded == BodyEnded => decoder.out = EventsOf(upstream)

\* the same for the frames whose line is ended by a newline: at any time the events are
\* those of the lines whose newline has been read, however the chunks cut them
TerminatedFramesDecoded ==
    decoder.out = EventsOf(SubSeq(upstream, 1, NewlinesIn(consumed)))

\* a body whose last line, a message_delta frame, lacks the newline has been read to its
\* end: the line before it was cut by a chunk boundary and decoded, the last one is left
\* in the buffer
LastFrameLeftInBuffer ==
    /\ BodyEnded /\ "line" \in cuts
    /\ upstream = << DataLine(TextDelta(<<"H", E_ACUTE>>)),
                     DataLine(MessageDelta("end_turn", <<3>>)) >>
    /\ decoder.buffer = DataLine(MessageDelta("end_turn", <<3>>))
    /\ decoder.out = << [type |-> "text-delta", textDelta |-> <<"H", E_ACUTE>>] >>

----------------------------------------------------------------------------
(* Claim about the usage counts of the finish event, checked under SpecFinish *)

IsMessageStart(f) == f.type = "message_start"

IsMessageDelta(f) == f.type = "message_delta"

\* a message_delta frame that carries a usage count
HasUsage(f) == f.type = "message_delta" /\ f.output_tokens # Absent

\* the position in fs of its k-th message_delta frame
KthMessageDelta(fs, k) ==
    CHOOSE i \in DOMAIN fs :
        /\ fs[i].type = "message_delta"
        /\ Cardinality({j \in 1..i : fs[j].type = "message_delta"}) = k

\* the position of the last frame among the first p that satisfies Test, 0 if none does
LastWhere(fs, p, Test(_)) ==
    LET S == {i \in 1..p : Test(fs[i])} IN
    IF S = {} THEN 0 ELSE CHOOSE i \in S : \A j \in S : j <= i

\* the input_tokens of the most recent message_start among the first p frames
PromptTokensAt(fs, p) ==
    LET i == LastWhere(fs, p, IsMessageStart) IN
    IF i = 0 THEN 0
    ELSE IF fs[i].input_tokens = Absent THEN 0 ELSE fs[i].input_tokens[1]

\* the output_tokens of the most recent message_delta with a usage count among them
CompletionTokensAt(fs, p) ==
    LET i == LastWhere(fs, p, HasUsage) IN
    IF i = 0 THEN 0 ELSE fs[i].output_tokens[1]

\* C23: each finish event carries promptTokens equal to the input_tokens of the most
\* recent message_start frame (0 if there was none or it had no usage) and
\* completionTokens equal to the output_tokens of the most recent message_delta frame
\* that carried a usage count, the triggering one included (0 if none did); a
\* message_delta without a usage count leaves the completion-token count unchanged.
C23_FinishUsage ==
    /\ [](LET fs == FramesOf(upstream)
              fin == SelectSeq(decoder.out, IsFinishEvent) IN
          /\ Len(fin) = Len(SelectSeq(fs, IsMessageDelta))
          /\ \A k \in DOMAIN fin :
                 /\ fin[k].usage.promptTokens = PromptTokensAt(fs, KthMessageDelta(fs, k))
                 /\ fin[k].usage.completionTokens
                        = CompletionTokensAt(fs, KthMessageDelta(fs, k)))
    /\ [][ (LineRead /\ IsMessageDeltaLine(LastLine(upstream'))
                     /\ ~HasUsage(FrameOfLine(LastLine(upstream'))))
              => decoder'.outputTokens = decoder.outputTokens ]_vars

\* C23 witness: after message_start(10) and message_delta(end_turn, 3), a message_delta
\* without a usage count has emitted a second finish with the counts 10 and 3
C23_Witness ==
    /\ upstream = << DataLine(MessageStart(<<10>>)), DataLine(MessageDelta("end_turn", <<3>>)),
                     DataLine(MessageDelta("tool_use", Absent)) >>
    /\ Len(decoder.out) = 2
    /\ decoder.out[2].usage = [promptTokens |-> 10, completionTokens |-> 3]
    /\ decoder.outputTokens = 3

\* a second message_start without usage has reset the prompt-token count to 0
PromptTokensReset ==
    /\ upstream = << DataLine(MessageStart(<<10>>)), DataLine(MessageStart(Absent)),
                     DataLine(MessageDelta("stop_sequence", <<7>>)) >>
    /\ decoder.out[1].usage = [promptTokens |-> 0, completionTokens |-> 7]

----------------------------------------------------------------------------
(* Claim about the consumer's demand, checked under SpecConsumer *)

\* the events enqueued that the consumer has not asked for
Queued == Len(decoder.out) - requested

\* C24: the decoder is lazy and pull-driven: it reads a further chunk from the byte source
\* only when the consumer has requested more output (no event it has not asked for is
\* waiting in the queue), so with a consumer that never pulls the decoder does not keep
\* reading the byte source to its end.
C24_PullDriven ==
    /\ [][consumed' # consumed => Queued <= 0]_vars
    /\ [](requested = 0 => ~(BodyEnded /\ Len(decoder.out) > 1))

\* the consumer never asked for anything, and the whole body was read, chunk after chunk,
\* its events enqueued and the output closed
ReadToEndWithoutPull ==
    /\ requested = 0 /\ BodyEnded
    /\ Len(upstream) = 2 /\ Len(decoder.out) = 2
    /\ "line" \in cuts

----------------------------------------------------------------------------
(* Claim about a failed read of the store, checked under Spec *)

\* C25: when a readCredentials call fails on a cache miss (backing store missing, or its
\* content unparseable), it raises the corresponding error (not-found, respectively
\* corrupt) and leaves the cached record and the last-read timestamp exactly as they
\* were before the call.
C25_FailedReadKeepsCache ==
    /\ [][ (ReadRan /\ CacheMiss /\ (~disk.exists \/ disk.text = Garbage)) =>
              /\ ~readRet'.ok
              /\ readRet'.error = (IF ~disk.exists THEN "CredentialsNotFound"
                                   ELSE "CredentialsCorrupt")
              /\ cachedCredentials' = cachedCredentials
              /\ lastReadTime' = lastReadTime ]_vars
    /\ [][ (ReadRan /\ ~readRet'.ok) =>
              /\ CacheMiss /\ (~disk.exists \/ disk.text = Garbage)
              /\ cachedCredentials' = cachedCredentials
              /\ lastReadTime' = lastReadTime ]_vars

\* C25 witness: the store was overwritten with garbage after a record had been cached;
\* the call made 30 s after that read failed with the corrupt error, and the record and
\* its read time are still there
C25_Witness ==
    /\ op = "readCredentials" /\ ~ret.ok /\ ret.error = "CredentialsCorrupt"
    /\ disk = File(Garbage)
    /\ cachedCredentials # null /\ lastReadTime = StartTime
    /\ now = StartTime + CACHE_TTL_MS

----------------------------------------------------------------------------
(* Claim about the request of doStream, checked under SpecRequest *)

\* the body without its stream flag
WithoutStream(body) == [body EXCEPT !.stream = Absent]

\* the parameters of the request as the documentation of the settings and the comment
\* `same as doGenerate` describe them: what the call sets, else what the model was
\* constructed with
ExpectedParameter(ofCall, ofSettings) == IF ofCall # Absent THEN ofCall ELSE ofSettings

\* C26: for the same model, settings and call options, doStream sends the same request
\* parameters as doGenerate apart from the added stream flag: the construction-time
\* settings (temperature, topP, topK, maxTokens) are used whenever the call leaves that
\* parameter unset, and tools and tool-choice are translated identically.
C26_SameRequestAsGenerate ==
    op = "doStream request" =>
        /\ ret.body.stream = <<TRUE>>
        /\ WithoutStream(ret.body) = GenerateBody(model.modelId, model.settings, ret.options)
        /\ ret.body.temperature
              = ExpectedParameter(ret.options.temperature, model.settings.temperature)
        /\ ret.body.top_p = ExpectedParameter(ret.options.topP, model.settings.topP)
        /\ ret.body.top_k = ExpectedParameter(ret.options.topK, model.settings.topK)
        /\ ret.body.max_tokens
              = ExpectedParameter(ret.options.maxTokens,
                                  ExpectedParameter(model.settings.maxTokens, <<4096>>))

\* the call gives every sampling parameter the settings hold, and no tool choice other
\* than auto
NothingLeftToSettings ==
    /\ model.settings.temperature # Absent => ret.options.temperature # Absent
    /\ model.settings.topP # Absent => ret.options.topP # Absent
    /\ model.settings.topK # Absent => ret.options.topK # Absent
    /\ (ret.options.mode.type = "regular" /\ ret.options.mode.toolChoice # Absent)
          => ret.options.mode.toolChoice[1].type = "auto"

\* the same for such calls: the two bodies differ by the stream flag only
SameRequestWhenCallSetsAll ==
    (op = "doStream request" /\ NothingLeftToSettings) =>
        /\ ret.body.stream = <<TRUE>>
        /\ WithoutStream(ret.body) = GenerateBody(model.modelId, model.settings, ret.options)

\* doGenerate has sent the temperature of the settings for a call that set none
GenerateUsesSettings ==
    /\ op = "doGenerate request"
    /\ ret.options.temperature = Absent /\ model.settings.temperature = <<"0.7">>
    /\ ret.body.temperature = <<"0.7">>

\* doStream has sent the max_tokens of the settings, and the declarations of the tools
StreamUsesMaxTokens ==
    /\ op = "doStream request" /\ NothingLeftToSettings
    /\ ret.options.maxTokens = Absent /\ ret.body.max_tokens = <<1024>>
    /\ ret.body.tools # Absent

====
